---- MODULE Spec2Model ----
(***************************************************************************)
(* A model of src/dynamodb.js (aws-toolbelt): the DynamoDB helper module.  *)
(*                                                                         *)
(* One call of an exported function is followed from its invocation to the *)
(* settling of the promise it returned, and, for batchWrite, to the end of *)
(* the callback chain it started.  The remote service is the environment:  *)
(* it answers every request in flight with a success or with an error.     *)
(*                                                                         *)
(* Text.  A template literal is modelled as the sequence of its tokens,    *)
(* white space dropped.  A token is a sequence of pieces, so that          *)
(* `:${attribute}Value` is the token <<":", attribute, "Value">>: two      *)
(* tokens are the same text exactly when their pieces are the same.  A     *)
(* placeholder is a token whose first piece is ":".                        *)
(*                                                                         *)
(* Values.  JavaScript's undefined is the value Undefined; a missing       *)
(* property of an object reads as Undefined.                               *)
(***************************************************************************)
EXTENDS Integers, Sequences, FiniteSets, TLC

\* ------------------------------------------------------------------ bounds

\* The longest request list handed to batchWrite.
MaxRequests == 51
\* The most pages the service returns to one auto-paginated call.
MaxPages == 3
\* The longest list of scan filters.
MaxFilters == 2

\* --------------------------------------------------------------- constants

\* batchWrite: a chunk that holds this many requests is full.
ChunkSize == 25

Undefined == "undefined"

\* A slip in the allow-list of key conditions: `!=` let through.
QueryOperationsWithNotEqual ==
  {"=", "!=", ">", ">=", "<", "<=", "between", "begins_with"}

\* The `operation` strings _constructQueryParams accepts.
QueryOperations == {"=", ">", ">=", "<", "<=", "between", "begins_with"}

\* The `operation` strings _buildFilterQuery accepts.
FilterOperations ==
  {"=", "!=", ">", ">=", "<", "<=", "between", "exists", "not exists",
   "contains", "not contains", "begins_with"}

\* The error a failed operator validation throws.
InvalidOperation == "Invalid operation"

\* Errors of the remote service.
RemoteErrors == {"ResourceNotFoundException", "ThrottlingException"}

\* ------------------------------------------------------------------- text

Lit(s) == <<s>>
IsPlaceholder(tok) == tok[1] = ":"
Range(s) == {s[i] : i \in 1..Len(s)}
\* The placeholders an expression refers to.
Placeholders(expr) == {tok \in Range(expr) : IsPlaceholder(tok)}

\* { ...a, ...b }: b's properties override a's.
Spread(a, b) ==
  [k \in DOMAIN a \cup DOMAIN b |-> IF k \in DOMAIN b THEN b[k] ELSE a[k]]

\* params.name, Undefined when params has no such property.
Prop(obj, name) == IF name \in DOMAIN obj THEN obj[name] ELSE Undefined

\* ------------------------------------------------------- request building

\* The result of a function that may throw.
Returned(v) == [threw |-> FALSE, value |-> v, error |-> Undefined]
Threw(e) == [threw |-> TRUE, value |-> Undefined, error |-> e]

\* The arguments of JavaScript, by typeof.
NoArg == [type |-> "undefined", str |-> Undefined, operation |-> Undefined,
          value |-> Undefined, value1 |-> Undefined, value2 |-> Undefined]
StringArg(s) == [NoArg EXCEPT !.type = "string", !.str = s]
\* A key condition object; a property left out is Undefined.
ConditionArg(operation, value, value1, value2) ==
  [NoArg EXCEPT !.type = "object", !.operation = operation, !.value = value,
                !.value1 = value1, !.value2 = value2]
\* if (x): undefined and the empty string are falsy, an object is truthy.
Truthy(arg) ==
  \/ arg.type = "object"
  \/ arg.type = "string" /\ arg.str # ""

\* const {operation = '=', ...} = obj: the default stands in for undefined only.
OperationOf(obj) == IF obj.operation = Undefined THEN "=" ELSE obj.operation

PkValue == <<":", "pkvalue">>
SkValue == <<":", "skvalue">>
SkValue1 == <<":", "skvalue1">>
\* A slip in the second placeholder of `between`: the first one, again.
SkValue2AsSkValue1 == <<":", "skvalue1">>
SkValue2 == <<":", "skvalue2">>

_constructQueryParams(tableName, primaryKey, primaryKeyValue, sortKey, sortKeyValueKeyCondition) ==
  LET params ==
        [TableName |-> tableName,
         KeyConditionExpression |-> <<Lit(primaryKey), Lit("="), PkValue>>,
         ExpressionAttributeValues |-> (PkValue :> primaryKeyValue)]
      cond == sortKeyValueKeyCondition
      operation == OperationOf(cond)
      beginsWith ==
        <<Lit("and"), Lit("begins_with"), Lit("("), Lit(sortKey), Lit(","),
          SkValue, Lit(")")>>
  IN  IF ~Truthy(cond) THEN Returned(params)
      ELSE IF cond.type = "string" THEN
        Returned(
          [params EXCEPT
             !.KeyConditionExpression = @ \o beginsWith,
             !.ExpressionAttributeValues = Spread(@, SkValue :> cond.str)])
      ELSE IF operation \notin QueryOperations THEN Threw(InvalidOperation)
      ELSE IF operation = "begins_with" THEN
        Returned(
          [params EXCEPT
             !.KeyConditionExpression = @ \o beginsWith,
             !.ExpressionAttributeValues = Spread(@, SkValue :> cond.value)])
      ELSE IF operation = "between" THEN
        Returned(
          [params EXCEPT
             !.KeyConditionExpression =
               @ \o <<Lit("and"), Lit(sortKey), Lit("between"), SkValue1,
                      Lit("and"), SkValue2>>,
             !.ExpressionAttributeValues =
               Spread(Spread(@, SkValue1 :> cond.value1),
                      SkValue2 :> cond.value2)])
      ELSE
        Returned(
          [params EXCEPT
             !.KeyConditionExpression =
               @ \o <<Lit("and"), Lit(sortKey), Lit(operation), SkValue>>,
             !.ExpressionAttributeValues = Spread(@, SkValue :> cond.value)])

\* A scan filter object; a property left out is Undefined.
Filter(attribute, operation, value, value1, value2) ==
  [attribute |-> attribute, operation |-> operation, value |-> value,
   value1 |-> value1, value2 |-> value2]

\* :${attribute}Value, :${attribute}Value1, :${attribute}Value2
AttrValue(attribute, suffix) == <<":", attribute, suffix>>

\* The empty object {}.
EmptyObject == [k \in {} |-> Undefined]

_buildFilterQuery(filter) ==
  LET attribute == filter.attribute
      operation == OperationOf(filter)
  IN  IF operation \notin FilterOperations THEN Threw(InvalidOperation)
      \* operation.includes('begins_with') || operation.includes('contains'):
      \* of the accepted operations, these three.
      ELSE IF operation \in {"begins_with", "contains", "not contains"} THEN
        Returned(
          [expression |->
             <<Lit(operation), Lit("("), Lit(attribute), Lit(","),
               AttrValue(attribute, "Value"), Lit(")")>>,
           expressionAttributeValues |->
             (AttrValue(attribute, "Value") :> filter.value)])
      ELSE IF operation = "exists" THEN
        Returned(
          [expression |->
             <<Lit("attribute_exists"), Lit("("), Lit(attribute), Lit(")")>>,
           expressionAttributeValues |-> EmptyObject])
      ELSE IF operation = "not exists" THEN
        Returned(
          [expression |->
             <<Lit("attribute_not_exists"), Lit("("), Lit(attribute),
               Lit(")")>>,
           expressionAttributeValues |-> EmptyObject])
      ELSE IF operation = "between" THEN
        Returned(
          [expression |->
             <<Lit(attribute), Lit("between"), AttrValue(attribute, "Value1"),
               Lit("and"), AttrValue(attribute, "Value2")>>,
           expressionAttributeValues |->
             (AttrValue(attribute, "Value1") :> filter.value1)
               @@ (AttrValue(attribute, "Value2") :> filter.value2)])
      ELSE
        Returned(
          [expression |->
             <<Lit(attribute), Lit(operation), AttrValue(attribute, "Value")>>,
           expressionAttributeValues |->
             (AttrValue(attribute, "Value") :> filter.value)])

\* The `filters` argument of a scan: left out, one filter object, or an array.
NoFilter == Filter(Undefined, Undefined, Undefined, Undefined, Undefined)
NoFilters == [type |-> "undefined", filter |-> NoFilter, list |-> <<>>]
SingleFilter(f) == [type |-> "object", filter |-> f, list |-> <<>>]
FilterList(l) == [type |-> "array", filter |-> NoFilter, list |-> l]

\* filters.forEach((filter, i) => ...) from element i on, params being what
\* the elements before i have built; a throw ends the iteration.
RECURSIVE ForEachFilter(_, _, _)
ForEachFilter(list, i, params) ==
  IF i > Len(list) THEN Returned(params)
  ELSE
    LET built == _buildFilterQuery(list[i])
    IN  IF built.threw THEN built
        ELSE IF i > 1 THEN
          ForEachFilter(list, i + 1,
            Spread(params,
              [FilterExpression |->
                 params.FilterExpression
                   \o <<Lit("and")>> \o built.value.expression,
               ExpressionAttributeValues |->
                 Spread(params.ExpressionAttributeValues,
                        built.value.expressionAttributeValues)]))
        ELSE
          ForEachFilter(list, i + 1,
            Spread(params,
              [FilterExpression |-> built.value.expression,
               ExpressionAttributeValues |->
                 built.value.expressionAttributeValues]))

_constructScanParams(tableName, filters) ==
  LET params == [TableName |-> tableName]
  IN  IF filters.type = "undefined" THEN Returned(params)
      ELSE IF filters.type = "array" THEN ForEachFilter(filters.list, 1, params)
      ELSE
        LET built == _buildFilterQuery(filters.filter)
        IN  IF built.threw THEN built
            ELSE Returned(
                   Spread(params,
                     [FilterExpression |-> built.value.expression,
                      ExpressionAttributeValues |->
                        built.value.expressionAttributeValues]))

\* keySchema.reduce((map, {AttributeName, KeyType}) => ..., {}) from element i.
RECURSIVE ReduceKeySchema(_, _, _)
ReduceKeySchema(keySchema, i, map) ==
  IF i > Len(keySchema) THEN map
  ELSE ReduceKeySchema(keySchema, i + 1,
         Spread(map, keySchema[i].KeyType :> keySchema[i].AttributeName))

_getTableKeySchema(described) == ReduceKeySchema(described.Table.KeySchema, 1, EmptyObject)

\* A slip in the test for a full chunk: > for >=.
RECURSIVE ForEachRequestOverfull(_, _, _)
ForEachRequestOverfull(requests, i, map) ==
  IF i > Len(requests) THEN map
  ELSE
    LET index == Len(map) - 1
    IN  IF Len(map[index + 1]) > ChunkSize
          THEN ForEachRequestOverfull(requests, i + 1,
                 Append(map, <<requests[i]>>))
          ELSE ForEachRequestOverfull(requests, i + 1,
                 [map EXCEPT ![index + 1] = Append(@, requests[i])])

\* requests.forEach(...) of batchWrite from element i on; map is the chunks
\* built so far, a sequence whose element k + 1 is the code's map[k].
RECURSIVE ForEachRequest(_, _, _)
ForEachRequest(requests, i, map) ==
  IF i > Len(requests) THEN map
  ELSE
    LET index == Len(map) - 1
    IN  IF Len(map[index + 1]) >= ChunkSize
          THEN ForEachRequest(requests, i + 1, Append(map, <<requests[i]>>))
          ELSE ForEachRequest(requests, i + 1,
                 [map EXCEPT ![index + 1] = Append(@, requests[i])])

\* The map batchWrite hands to _batchWrite.
ChunkRequests(requests) == ForEachRequest(requests, 1, << <<>> >>)

\* ------------------------------------------------------------------ inputs

\* The tables of the account, each with the KeySchema describeTable reports.
KeySchemaOf(tableName) ==
  IF tableName = "books"
    THEN <<[AttributeName |-> "author", KeyType |-> "HASH"],
           [AttributeName |-> "title", KeyType |-> "RANGE"]>>
    ELSE <<[AttributeName |-> "id", KeyType |-> "HASH"]>>
Tables == {"books", "users"}
PrimaryKeyValues == {"stephen king", "42"}

\* Every third argument of a query the model tries: left out, a string (the
\* empty one too), and a condition object with each accepted operation, with
\* the operation left out, and with operations that are not accepted.
AllConditions ==
  {NoArg, StringArg(""), StringArg("the")}
    \cup {ConditionArg(o, v, "lo", "hi") :
            o \in QueryOperations \cup {Undefined, "!=", "contains"},
            v \in {"a", "b"}}
\* The few of them the whole-call specification follows to the end.
SomeConditions ==
  {NoArg, StringArg("the"), ConditionArg("between", Undefined, "lo", "hi"),
   ConditionArg("like", "a", Undefined, Undefined)}

\* Every scan filter the model tries.
AllFilters ==
  {Filter(a, o, v, "lo", "hi") :
     a \in {"title", "year"},
     o \in FilterOperations \cup {Undefined, "like"},
     v \in {"a", "b"}}
\* The filters the model makes lists of: an operation of each kind of
\* condition _buildFilterQuery builds, and one it does not accept.
ListFilters ==
  {f \in AllFilters :
     f.operation \in {"=", "between", "exists", "not contains", "like"}}
SeqsUpTo(S, n) == UNION {[1..k -> S] : k \in 0..n}
AllFilterArgs ==
  {NoFilters} \cup {SingleFilter(f) : f \in AllFilters}
    \cup {FilterList(l) : l \in SeqsUpTo(ListFilters, MaxFilters)}
SomeFilterArgs ==
  {NoFilters,
   SingleFilter(Filter("title", "contains", "a", Undefined, Undefined)),
   SingleFilter(Filter("title", "like", "a", Undefined, Undefined)),
   FilterList(<<Filter("year", ">", "a", Undefined, Undefined),
                Filter("year", "like", "b", Undefined, Undefined)>>)}

\* The request lists handed to batchWrite: n distinct put requests.
RequestLists == {[i \in 1..n |-> i] : n \in 0..MaxRequests}

\* What the service may answer to a query or scan.  A page holds Items, their
\* Count, the ScannedCount (Count plus the items a filter dropped) and, when
\* more pages follow, the LastEvaluatedKey.
PageItems == {<<>>, <<"i1">>, <<"i2", "i1">>}
Keys == {"k1", "k2"}
Page(items, dropped, lastEvaluatedKey) ==
  [Items |-> items, Count |-> Len(items), ScannedCount |-> Len(items) + dropped,
   LastEvaluatedKey |-> lastEvaluatedKey]
Pages ==
  {Page(items, d, k) : items \in PageItems, d \in 0..1,
                       k \in Keys \cup {Undefined}}

\* ------------------------------------------------------------------- state

VARIABLES
  call,               \* the call being followed: the function and its arguments
  pc,                 \* where the call is waiting
  promise,            \* the promise the call returned
  params,             \* the params of the call's data requests
  sent,               \* every request issued to the service, in order
  inflight,           \* the indices in sent of the requests not yet answered
  received,           \* every answer of the service, in order
  aggregatedResults,  \* _autoPaginate's accumulator
  map,                \* batchWrite's chunks; element k + 1 is the code's map[k]
  index,              \* the index of the _batchWrite whose callback is pending
  chain               \* the batchWrite chain: none, running, stopped or done

vars ==
  <<call, pc, promise, params, sent, inflight, received, aggregatedResults,
    map, index, chain>>

NoCall ==
  [op |-> "none", tableName |-> Undefined, primaryKeyValue |-> Undefined,
   condition |-> NoArg, filters |-> NoFilters, requests |-> <<>>]
Pending == [state |-> "pending", value |-> Undefined]
Fulfilled(v) == [state |-> "fulfilled", value |-> v]
Rejected(e) == [state |-> "rejected", value |-> e]

Request(method, p) == [method |-> method, params |-> p]
\* An answer of the service, as the callback's (err, data): err is Undefined
\* on success, data is Null on failure.
Null == [null |-> TRUE]
Answer(i, err, data) == [request |-> i, err |-> err, data |-> data]

\* Issue a request: it is in flight until the service answers it.
Send(method, p) ==
  /\ sent' = Append(sent, Request(method, p))
  /\ inflight' = inflight \cup {Len(sent) + 1}

\* The service answers the request in flight at index i.
Receive(i, err, data) ==
  /\ i \in inflight
  /\ received' = Append(received, Answer(i, err, data))

Init ==
  /\ call = NoCall
  /\ pc = "idle"
  /\ promise = [state |-> "none", value |-> Undefined]
  /\ params = EmptyObject
  /\ sent = <<>>
  /\ inflight = {}
  /\ received = <<>>
  /\ aggregatedResults = EmptyObject
  /\ map = <<>>
  /\ index = -1
  /\ chain = "none"

\* ------------------------------------------------------- query and scan

\* The method _autoPaginate is called with.
MethodOf(op) == IF op = "queryTableWithAutoPagination" THEN "query" ELSE "scan"

\* A slip in _autoPaginate: the lastEvaluatedKey is not put in the request.
QueryParamsWithoutKey(p, lastEvaluatedKey) == p

\* _autoPaginate up to its await: the params of the request for the next page.
QueryParams(p, lastEvaluatedKey) ==
  IF lastEvaluatedKey # Undefined
    THEN Spread(p, [ExclusiveStartKey |-> lastEvaluatedKey])
    ELSE p

\* A slip in _autoPaginate: the page's items put before the accumulated ones.
AccumulatePrepended(aggregated, results) ==
  [Count |-> aggregated.Count + results.Count,
   ScannedCount |-> aggregated.ScannedCount + results.ScannedCount,
   Items |-> results.Items \o aggregated.Items]

\* _autoPaginate after its await: the page added to the accumulator.
Accumulate(aggregated, results) ==
  [Count |-> aggregated.Count + results.Count,
   ScannedCount |-> aggregated.ScannedCount + results.ScannedCount,
   Items |-> aggregated.Items \o results.Items]

\* The accumulator the auto-paginating functions start _autoPaginate with.
EmptyResults == [Count |-> 0, ScannedCount |-> 0, Items |-> <<>>]

\* The answers to the call's query and scan requests, in order.
PageAnswers ==
  SelectSeq(received, LAMBDA a : sent[a.request].method \in {"query", "scan"})

\* queryTable up to its first await: the describeTable request of
\* _getTableKeySchema.
queryTable(tableName, primaryKeyValue, sortKeyValueOrKeyCondition) ==
  /\ pc = "idle"
  /\ call' = [NoCall EXCEPT !.op = "queryTable", !.tableName = tableName,
                            !.primaryKeyValue = primaryKeyValue,
                            !.condition = sortKeyValueOrKeyCondition]
  /\ promise' = Pending
  /\ Send("describeTable", [TableName |-> tableName])
  /\ pc' = "describeTable"
  /\ UNCHANGED <<params, received, aggregatedResults, map, index, chain>>

\* queryTableWithAutoPagination up to its first await, likewise.
queryTableWithAutoPagination(tableName, primaryKeyValue, sortKeyValueOrKeyCondition) ==
  /\ pc = "idle"
  /\ call' = [NoCall EXCEPT !.op = "queryTableWithAutoPagination",
                            !.tableName = tableName,
                            !.primaryKeyValue = primaryKeyValue,
                            !.condition = sortKeyValueOrKeyCondition]
  /\ promise' = Pending
  /\ Send("describeTable", [TableName |-> tableName])
  /\ pc' = "describeTable"
  /\ UNCHANGED <<params, received, aggregatedResults, map, index, chain>>

\* describeTable fails: the await in _getTableKeySchema throws, and the query
\* fails with the service's error.
DescribeTableFails(err) ==
  /\ pc = "describeTable"
  /\ \E i \in inflight :
       /\ Receive(i, err, Null)
       /\ inflight' = inflight \ {i}
  /\ promise' = Rejected(err)
  /\ pc' = "done"
  /\ UNCHANGED <<call, params, sent, aggregatedResults, map, index, chain>>

\* What describeTable answers for a table.
Described(tableName) == [Table |-> [KeySchema |-> KeySchemaOf(tableName)]]

\* The params a query builds from the description of its table.
QueryParamsOf(described) ==
  LET keys == _getTableKeySchema(described)
  IN  _constructQueryParams(call.tableName, Prop(keys, "HASH"),
        call.primaryKeyValue, Prop(keys, "RANGE"), call.condition)

\* queryTable from the answer of describeTable to its second await: the
\* params and, unless building them throws, the query request.
queryTableResumes ==
  /\ pc = "describeTable"
  /\ call.op = "queryTable"
  /\ \E i \in inflight :
       LET described == Described(call.tableName)
           built == QueryParamsOf(described)
       IN  /\ Receive(i, Undefined, described)
           /\ IF built.threw
                THEN /\ promise' = Rejected(built.error)
                     /\ pc' = "done"
                     /\ inflight' = inflight \ {i}
                     /\ UNCHANGED <<params, sent>>
                ELSE /\ params' = built.value
                     /\ sent' = Append(sent, Request("query", built.value))
                     /\ inflight' = (inflight \ {i}) \cup {Len(sent) + 1}
                     /\ pc' = "request"
                     /\ UNCHANGED promise
  /\ UNCHANGED <<call, aggregatedResults, map, index, chain>>

\* queryTableWithAutoPagination from the answer of describeTable to the await
\* of _autoPaginate: the params and, unless building them throws, the request
\* for the first page.
queryTableWithAutoPaginationResumes ==
  /\ pc = "describeTable"
  /\ call.op = "queryTableWithAutoPagination"
  /\ \E i \in inflight :
       LET described == Described(call.tableName)
           built == QueryParamsOf(described)
       IN  /\ Receive(i, Undefined, described)
           /\ IF built.threw
                THEN /\ promise' = Rejected(built.error)
                     /\ pc' = "done"
                     /\ inflight' = inflight \ {i}
                     /\ UNCHANGED <<params, sent, aggregatedResults>>
                ELSE /\ params' = built.value
                     /\ aggregatedResults' = EmptyResults
                     /\ sent' =
                          Append(sent,
                            Request("query",
                              QueryParams(built.value, Undefined)))
                     /\ inflight' = (inflight \ {i}) \cup {Len(sent) + 1}
                     /\ pc' = "paginate"
                     /\ UNCHANGED promise
  /\ UNCHANGED <<call, map, index, chain>>

\* scanTable up to its await: the params and, unless building them throws,
\* the scan request.
scanTable(tableName, filters) ==
  /\ pc = "idle"
  /\ call' = [NoCall EXCEPT !.op = "scanTable", !.tableName = tableName,
                            !.filters = filters]
  /\ LET built == _constructScanParams(tableName, filters)
     IN  IF built.threw
           THEN /\ promise' = Rejected(built.error)
                /\ pc' = "done"
                /\ UNCHANGED <<params, sent, inflight>>
           ELSE /\ params' = built.value
                /\ promise' = Pending
                /\ Send("scan", built.value)
                /\ pc' = "request"
  /\ UNCHANGED <<received, aggregatedResults, map, index, chain>>

\* scanTableWithAutoPagination up to the await of _autoPaginate: the params
\* and, unless building them throws, the request for the first page.
scanTableWithAutoPagination(tableName, filters) ==
  /\ pc = "idle"
  /\ call' = [NoCall EXCEPT !.op = "scanTableWithAutoPagination",
                            !.tableName = tableName, !.filters = filters]
  /\ LET built == _constructScanParams(tableName, filters)
     IN  IF built.threw
           THEN /\ promise' = Rejected(built.error)
                /\ pc' = "done"
                /\ UNCHANGED <<params, sent, inflight, aggregatedResults>>
           ELSE /\ params' = built.value
                /\ promise' = Pending
                /\ aggregatedResults' = EmptyResults
                /\ Send("scan", QueryParams(built.value, Undefined))
                /\ pc' = "paginate"
  /\ UNCHANGED <<received, map, index, chain>>

\* queryTable, scanTable: the awaited request answers and the call returns it.
RequestSucceeds(results) ==
  /\ pc = "request"
  /\ \E i \in inflight :
       /\ Receive(i, Undefined, results)
       /\ inflight' = inflight \ {i}
  /\ promise' = Fulfilled(results)
  /\ pc' = "done"
  /\ UNCHANGED <<call, params, sent, aggregatedResults, map, index, chain>>

\* queryTable, scanTable: the awaited request fails and the await throws.
RequestFails(err) ==
  /\ pc = "request"
  /\ \E i \in inflight :
       /\ Receive(i, err, Null)
       /\ inflight' = inflight \ {i}
  /\ promise' = Rejected(err)
  /\ pc' = "done"
  /\ UNCHANGED <<call, params, sent, aggregatedResults, map, index, chain>>

\* _autoPaginate from its await on: a page arrives, is added to the
\* accumulator, and either the next page is requested or the call returns.
\* The service ends the sequence at the latest with page MaxPages.
PageArrives(results) ==
  /\ pc = "paginate"
  /\ Len(PageAnswers) + 1 < MaxPages \/ results.LastEvaluatedKey = Undefined
  /\ \E i \in inflight :
       LET aggregated == Accumulate(aggregatedResults, results)
       IN  /\ received' = Append(received, Answer(i, Undefined, results))
           /\ aggregatedResults' = aggregated
           /\ IF results.LastEvaluatedKey # Undefined
                THEN /\ sent' =
                          Append(sent,
                            Request(MethodOf(call.op),
                              QueryParams(params, results.LastEvaluatedKey)))
                     /\ inflight' = (inflight \ {i}) \cup {Len(sent) + 1}
                     /\ UNCHANGED <<promise, pc>>
                ELSE /\ promise' = Fulfilled(aggregated)
                     /\ pc' = "done"
                     /\ inflight' = inflight \ {i}
                     /\ UNCHANGED sent
  /\ UNCHANGED <<call, params, map, index, chain>>

\* A slip in _autoPaginate: the error is caught and the pages gathered so far
\* are returned.
PageFailsReturnsPartial(err) ==
  /\ pc = "paginate"
  /\ \E i \in inflight :
       /\ Receive(i, err, Null)
       /\ inflight' = inflight \ {i}
  /\ promise' = Fulfilled(aggregatedResults)
  /\ pc' = "done"
  /\ UNCHANGED <<call, params, sent, aggregatedResults, map, index, chain>>

\* _autoPaginate: the awaited request fails, the await throws, and the error
\* goes up through every pending _autoPaginate to the caller.
PageFails(err) ==
  /\ pc = "paginate"
  /\ \E i \in inflight :
       /\ Receive(i, err, Null)
       /\ inflight' = inflight \ {i}
  /\ promise' = Rejected(err)
  /\ pc' = "done"
  /\ UNCHANGED <<call, params, sent, aggregatedResults, map, index, chain>>

\* ------------------------------------------------------------ batchWrite

\* What the service may report as unprocessed of a chunk: nothing, or, of a
\* chunk that holds requests, its first one.
Unprocessed(tableName, requests) ==
  {EmptyObject}
    \cup (IF requests = <<>> THEN {} ELSE {tableName :> <<requests[1]>>})

\* A slip in batchWrite: every chunk is issued at once.
batchWriteAllAtOnce(requests, tableName) ==
  /\ pc = "idle"
  /\ call' = [NoCall EXCEPT !.op = "batchWrite", !.tableName = tableName,
                            !.requests = requests]
  /\ map' = ChunkRequests(requests)
  /\ index' = 0
  /\ chain' = "running"
  /\ sent' =
       [k \in 1..Len(map') |->
          Request("batchWrite", [RequestItems |-> (tableName :> map'[k])])]
  /\ inflight' = 1..Len(map')
  /\ promise' = Fulfilled(Undefined)
  /\ pc' = "callback"
  /\ UNCHANGED <<params, received, aggregatedResults>>

\* batchWrite: the chunks, then _batchWrite(0, ...), which issues the first
\* chunk and returns without waiting for the answer, so that the await of
\* batchWrite ends, and its promise is fulfilled, before any answer arrives.
batchWrite(requests, tableName) ==
  /\ pc = "idle"
  /\ call' = [NoCall EXCEPT !.op = "batchWrite", !.tableName = tableName,
                            !.requests = requests]
  /\ map' = ChunkRequests(requests)
  /\ index' = 0
  /\ chain' = "running"
  /\ Send("batchWrite", [RequestItems |-> (tableName :> map'[1])])
  /\ promise' = Fulfilled(Undefined)
  /\ pc' = "callback"
  /\ UNCHANGED <<params, received, aggregatedResults>>

\* A slip in the callback: an error ends the chain.
CallbackDecisionStopsOnError(err, data, tableName, i, chunks) ==
  IF err # Undefined THEN "stopped"
  ELSE IF data # Null /\ tableName \in DOMAIN data.UnprocessedItems
    THEN "stopped"
  ELSE IF i >= Len(chunks) - 1 THEN "done"
  ELSE "running"

\* What the callback of _batchWrite(index, ...) decides: stop on unprocessed
\* items of the table, else end after the last chunk, else go on.
CallbackDecision(err, data, tableName, i, chunks) ==
  IF data # Null /\ tableName \in DOMAIN data.UnprocessedItems THEN "stopped"
  ELSE IF i >= Len(chunks) - 1 THEN "done"
  ELSE "running"

\* The callback of _batchWrite(index, map, tableName, true).
_batchWriteCallback(err, data) ==
  /\ pc = "callback"
  /\ \E i \in inflight :
       /\ Receive(i, err, data)
       /\ LET decision ==
                CallbackDecision(err, data, call.tableName, index, map)
          IN  /\ chain' = decision
              /\ IF decision = "running"
                   THEN /\ index' = index + 1
                        /\ sent' =
                             Append(sent,
                               Request("batchWrite",
                                 [RequestItems |->
                                    (call.tableName :> map[index + 2])]))
                        /\ inflight' = (inflight \ {i}) \cup {Len(sent) + 1}
                        /\ UNCHANGED pc
                   ELSE /\ inflight' = inflight \ {i}
                        /\ pc' = "done"
                        /\ UNCHANGED <<index, sent>>
  /\ UNCHANGED <<call, promise, params, aggregatedResults, map>>

\* The chunk the request in flight carries.
ChunkInFlight == map[index + 1]

\* ------------------------------------------------------- specifications

ServiceAnswers ==
  \/ queryTableResumes
  \/ queryTableWithAutoPaginationResumes
  \/ \E err \in RemoteErrors : DescribeTableFails(err)
  \/ \E results \in Pages : RequestSucceeds(results)
  \/ \E err \in RemoteErrors : RequestFails(err)
  \/ \E results \in Pages : PageArrives(results)
  \/ \E err \in RemoteErrors : PageFails(err)
  \/ \E err \in RemoteErrors : _batchWriteCallback(err, Null)
  \/ /\ pc = "callback"
     /\ \E u \in Unprocessed(call.tableName, ChunkInFlight) :
          _batchWriteCallback(Undefined, [UnprocessedItems |-> u])

\* One call of an exported function, followed to its end.
Next ==
  \/ \E t \in Tables, v \in PrimaryKeyValues, c \in SomeConditions :
       queryTable(t, v, c)
  \/ \E t \in Tables, v \in PrimaryKeyValues, c \in SomeConditions :
       queryTableWithAutoPagination(t, v, c)
  \/ \E t \in Tables, f \in SomeFilterArgs : scanTable(t, f)
  \/ \E t \in Tables, f \in SomeFilterArgs : scanTableWithAutoPagination(t, f)
  \/ \E r \in RequestLists, t \in Tables : batchWrite(r, t)
  \/ ServiceAnswers

Spec == Init /\ [][Next]_vars

\* The calls up to their first query or scan request, for every argument the
\* model tries: the building of the request is all that happens.
NextRequest ==
  \/ \E t \in Tables, v \in PrimaryKeyValues, c \in AllConditions :
       queryTable(t, v, c)
  \/ \E t \in Tables, v \in PrimaryKeyValues, c \in AllConditions :
       queryTableWithAutoPagination(t, v, c)
  \/ \E t \in Tables, f \in AllFilterArgs : scanTable(t, f)
  \/ \E t \in Tables, f \in AllFilterArgs : scanTableWithAutoPagination(t, f)
  \/ queryTableResumes
  \/ queryTableWithAutoPaginationResumes
  \/ \E err \in RemoteErrors : DescribeTableFails(err)

SpecRequest == Init /\ [][NextRequest]_vars

\* ------------------------------------------------------------- the claims

IsAutoPaginated ==
  call.op \in {"queryTableWithAutoPagination", "scanTableWithAutoPagination"}
IsQuery == call.op \in {"queryTable", "queryTableWithAutoPagination"}
IsScan == call.op \in {"scanTable", "scanTableWithAutoPagination"}
IsBatchWrite == call.op = "batchWrite"

\* The query and scan requests of the call, in the order they were issued.
DataRequests == SelectSeq(sent, LAMBDA r : r.method \in {"query", "scan"})
Succeeded(answer) == answer.err = Undefined
\* The page an answer carried a LastEvaluatedKey with.
HasMore(answer) ==
  Succeeded(answer) /\ answer.data.LastEvaluatedKey # Undefined

RECURSIVE ConcatItems(_)
ConcatItems(answers) ==
  IF answers = <<>> THEN <<>>
  ELSE ConcatItems(SubSeq(answers, 1, Len(answers) - 1))
         \o answers[Len(answers)].data.Items
RECURSIVE SumCount(_)
SumCount(answers) ==
  IF answers = <<>> THEN 0
  ELSE SumCount(Tail(answers)) + Head(answers).data.Count
RECURSIVE SumScannedCount(_)
SumScannedCount(answers) ==
  IF answers = <<>> THEN 0
  ELSE SumScannedCount(Tail(answers)) + Head(answers).data.ScannedCount

\* C1: the result an auto-paginated query or scan returns has the Items of
\* the pages received, concatenated in the order received, and the sums of
\* their Count and of their ScannedCount; every page but the last carried a
\* LastEvaluatedKey and the last carried none.
C1_PaginationAccumulates ==
  (IsAutoPaginated /\ promise.state = "fulfilled") =>
    LET pages == PageAnswers
    IN  /\ Len(pages) >= 1
        /\ \A k \in 1..Len(pages) : Succeeded(pages[k])
        /\ \A k \in 1..Len(pages) : HasMore(pages[k]) <=> k < Len(pages)
        /\ promise.value.Items = ConcatItems(pages)
        /\ promise.value.Count = SumCount(pages)
        /\ promise.value.ScannedCount = SumScannedCount(pages)

\* C1's case: three pages were received, the first two with different items
\* and with items a filter dropped, and the call has returned.
C1_Witness ==
  /\ IsAutoPaginated /\ promise.state = "fulfilled"
  /\ Len(PageAnswers) = 3
  /\ PageAnswers[1].data.Items = <<"i2", "i1">>
  /\ PageAnswers[2].data.Items = <<"i1">>
  /\ PageAnswers[1].data.ScannedCount > PageAnswers[1].data.Count

\* params without its ExclusiveStartKey.
WithoutStartKey(p) == [k \in DOMAIN p \ {"ExclusiveStartKey"} |-> p[k]]

\* C2: auto-pagination asks for pages until the service signals the end.  The
\* first request carries no ExclusiveStartKey; every later request carries the
\* LastEvaluatedKey of the answer just before it and is otherwise the first
\* request; a request follows an answer exactly when the answer carried a
\* LastEvaluatedKey; and the call returns with the first answer without one.
C2_RequestsFollowContinuation ==
  IsAutoPaginated =>
    LET requests == DataRequests
        answers == PageAnswers
    IN  /\ Len(answers) <= Len(requests)
        /\ Len(requests) <= Len(answers) + 1
        /\ \A k \in 1..Len(requests) :
             /\ requests[k].method = MethodOf(call.op)
             /\ IF k = 1
                  THEN "ExclusiveStartKey" \notin DOMAIN requests[k].params
                  ELSE /\ "ExclusiveStartKey" \in DOMAIN requests[k].params
                       /\ requests[k].params.ExclusiveStartKey =
                            answers[k - 1].data.LastEvaluatedKey
             /\ WithoutStartKey(requests[k].params) = requests[1].params
        /\ \A k \in 1..Len(answers) :
             HasMore(answers[k]) <=> k + 1 <= Len(requests)
        /\ \A k \in 1..Len(answers) :
             (Succeeded(answers[k]) /\ ~HasMore(answers[k])) =>
               /\ promise.state = "fulfilled"
               /\ pc = "done"
               /\ inflight = {}
        /\ promise.state = "fulfilled" =>
             Len(answers) >= 1 /\ ~HasMore(answers[Len(answers)])

\* C2's case: a third request went out, with the key of the second answer,
\* which is not the key of the first, and the call has returned.
C2_Witness ==
  /\ IsAutoPaginated /\ promise.state = "fulfilled"
  /\ Len(DataRequests) = 3
  /\ PageAnswers[1].data.LastEvaluatedKey = "k1"
  /\ PageAnswers[2].data.LastEvaluatedKey = "k2"
  /\ "FilterExpression" \in DOMAIN DataRequests[1].params

RECURSIVE Flatten(_)
Flatten(chunks) ==
  IF chunks = <<>> THEN <<>> ELSE Head(chunks) \o Flatten(Tail(chunks))

\* C3: batchWrite's chunks hold at most 25 requests each, exactly 25 each but
\* the last, and are the request list when put end to end; n >= 1 requests
\* make ceil(n / 25) chunks, and no request makes one chunk, which is empty.
C3_ChunksPartitionRequests ==
  IsBatchWrite =>
    LET n == Len(call.requests)
    IN  /\ \A k \in 1..Len(map) : Len(map[k]) <= 25
        /\ \A k \in 1..(Len(map) - 1) : Len(map[k]) = 25
        /\ Flatten(map) = call.requests
        /\ n >= 1 => Len(map) = (n + 24) \div 25
        /\ n = 0 => map = << <<>> >>

\* C3's case: 51 requests, the third chunk holding the last of them.
C3_Witness ==
  /\ IsBatchWrite
  /\ Len(call.requests) = 51
  /\ Len(map) = 3
  /\ map[3] = <<51>>

\* C4: one call has at most one request in flight: a request is issued only
\* when every request before it has been answered, and the chunks of a
\* batchWrite go out in the order of their indices, from chunk 0.
C4_OneRequestInFlight ==
  /\ Cardinality(inflight) <= 1
  /\ Len(sent) <= Len(received) + 1
  /\ \A k \in 1..Len(received) : received[k].request = k
  /\ inflight \subseteq {Len(sent)}
  /\ IsBatchWrite =>
       \A k \in 1..Len(sent) :
         sent[k] = Request("batchWrite",
                     [RequestItems |-> (call.tableName :> map[k])])

\* C4's case: the third chunk of a batchWrite is in flight, the first two
\* having been answered.
C4_Witness ==
  /\ IsBatchWrite
  /\ Len(sent) = 3
  /\ inflight = {3}
  /\ Len(received) = 2

\* C7: when the request for a page fails, the auto-paginating call fails with
\* that error: no request follows the failed one, the failed one is not issued
\* again, and the caller does not get the pages gathered before it.
C7_PageFailurePassedThrough ==
  IsAutoPaginated =>
    \A k \in 1..Len(PageAnswers) :
      ~Succeeded(PageAnswers[k]) =>
        /\ k = Len(PageAnswers)
        /\ Len(DataRequests) = k
        /\ inflight = {}
        /\ pc = "done"
        /\ promise.state = "rejected"
        /\ promise.value = PageAnswers[k].err

\* C7's case: the second page fails after a first page that held items.
C7_Witness ==
  /\ IsAutoPaginated
  /\ Len(PageAnswers) = 2
  /\ PageAnswers[1].data.Items # <<>>
  /\ PageAnswers[2].err = "ThrottlingException"
  /\ promise.state = "rejected"

\* An answer to a chunk that reports unprocessed items of the call's table.
ReportsUnprocessed(answer) ==
  Succeeded(answer) /\ call.tableName \in DOMAIN answer.data.UnprocessedItems

\* C8: in a batchWrite chain, chunk k + 1 is sent after the answer to chunk k
\* exactly when there is a chunk k + 1 and the answer reports no unprocessed
\* items of the table.  Unprocessed items end the chain for good and are not
\* sent again; a failed chunk is not sent again and does not hold back the
\* chunks after it.
C8_ChainContinuation ==
  IsBatchWrite =>
    /\ \A k \in 1..Len(received) :
         (k + 1 <= Len(sent)) <=>
           (k + 1 <= Len(map) /\ ~ReportsUnprocessed(received[k]))
    /\ \A k \in 1..Len(sent) :
         sent[k].params.RequestItems[call.tableName] = map[k]
    /\ \A k \in 1..Len(received) :
         ReportsUnprocessed(received[k]) =>
           /\ k = Len(received) /\ k = Len(sent)
           /\ inflight = {} /\ chain = "stopped" /\ pc = "done"

\* C8's case: of three chunks the first failed, the second was sent all the
\* same and came back with unprocessed items, and the third was never sent.
C8_Witness ==
  /\ IsBatchWrite
  /\ Len(map) = 3
  /\ Len(received) = 2
  /\ ~Succeeded(received[1])
  /\ ReportsUnprocessed(received[2])
  /\ Len(sent) = 2
  /\ pc = "done"

\* C9: the promise batchWrite returned settles only when the chain has ended:
\* when it is settled, no write of the call is in flight or still to be sent.
\* The code does not keep this: _batchWrite returns as soon as it has issued
\* its request, so the promise is fulfilled with the first chunk in flight.
C9_PromiseSettlesAfterChain ==
  (IsBatchWrite /\ promise.state \in {"fulfilled", "rejected"}) =>
    /\ inflight = {}
    /\ chain \in {"done", "stopped"}

\* The operations the documentation lists for a key condition and for a scan
\* filter.
ListedQueryOperations == {"=", ">", ">=", "<", "<=", "between", "begins_with"}
ListedFilterOperations ==
  {"=", "!=", ">", ">=", "<", "<=", "between", "exists", "not exists",
   "contains", "not contains", "begins_with"}

\* The call's key condition object names an operation that is not listed.
ConditionRejected ==
  /\ call.condition.type = "object"
  /\ call.condition.operation \notin ListedQueryOperations \cup {Undefined}
\* The call's key condition object names a listed operation, or none.
ConditionAccepted ==
  /\ call.condition.type = "object"
  /\ call.condition.operation \in ListedQueryOperations \cup {Undefined}
FilterListed(f) == f.operation \in ListedFilterOperations \cup {Undefined}
\* The filters of the call, as a list.
FiltersOf(filters) ==
  IF filters.type = "array" THEN filters.list
  ELSE IF filters.type = "object" THEN <<filters.filter>>
  ELSE <<>>
FiltersRejected ==
  \E i \in 1..Len(FiltersOf(call.filters)) :
    ~FilterListed(FiltersOf(call.filters)[i])
FiltersAccepted ==
  \A i \in 1..Len(FiltersOf(call.filters)) :
    FilterListed(FiltersOf(call.filters)[i])

\* describeTable has answered the call with the table's description.
KeySchemaKnown == Len(received) >= 1 /\ Succeeded(received[1])

\* What C5 says of scans, and of queries but for the error they fail with.
C5_ValidationBeforeRequest ==
  /\ (IsQuery /\ ConditionRejected) =>
       /\ DataRequests = <<>>
       /\ promise.state # "fulfilled"
  /\ (IsQuery /\ ConditionAccepted /\ KeySchemaKnown) =>
       /\ Len(DataRequests) = 1
       /\ DataRequests[1].method = "query"
       /\ promise.state = "pending"
  /\ (IsScan /\ FiltersRejected) =>
       /\ sent = <<>>
       /\ promise.state = "rejected"
       /\ pc = "done"
  /\ (IsScan /\ FiltersAccepted) =>
       /\ Len(DataRequests) = 1
       /\ DataRequests[1].method = "scan"
       /\ promise.state = "pending"

\* C5, as amended: an operation that is not listed makes a query fail with no
\* query request sent, and with the 'Invalid operation' error when the lookup
\* of the table's key schema has succeeded (when that lookup fails, the query
\* fails with the lookup's error); it makes a scan fail with no scan request
\* sent.  A listed operation, and an operation left out, is accepted.
C5_ValidationPrecedesRequest ==
  /\ C5_ValidationBeforeRequest
  /\ (IsQuery /\ ConditionRejected /\ KeySchemaKnown) =>
       /\ promise = Rejected("Invalid operation")
       /\ pc = "done"
  /\ (IsQuery /\ ConditionRejected /\ pc = "done" /\ ~KeySchemaKnown) =>
       /\ promise.state = "rejected"
       /\ promise.value = received[1].err

\* C5, as stated: a query with an operation that is not listed fails with the
\* 'Invalid operation' error.
C5_AsStated ==
  /\ C5_ValidationBeforeRequest
  /\ (IsQuery /\ ConditionRejected /\ pc = "done") =>
       promise = Rejected("Invalid operation")

\* C5's case: a query whose condition names an operation of scan filters only
\* has failed on it, the key schema known and no query request sent.
C5_Witness ==
  /\ call.op = "queryTableWithAutoPagination"
  /\ call.condition.operation = "contains"
  /\ KeySchemaKnown
  /\ promise = Rejected("Invalid operation")
  /\ Len(sent) = 1

\* The key condition C6 states, for the table's keys and the third argument;
\* with emptyIsNone, an empty string adds no condition.
ClaimedKeyCondition(pk, sk, cond, emptyIsNone) ==
  LET partition == <<Lit(pk), Lit("="), <<":", "pkvalue">> >>
      operation == IF cond.operation = Undefined THEN "=" ELSE cond.operation
      beginsWith ==
        <<Lit("and"), Lit("begins_with"), Lit("("), Lit(sk), Lit(","),
          <<":", "skvalue">>, Lit(")")>>
  IN  IF cond.type = "undefined" THEN partition
      ELSE IF cond.type = "string" THEN
        IF emptyIsNone /\ cond.str = "" THEN partition
        ELSE partition \o beginsWith
      ELSE IF operation = "between" THEN
        partition
          \o <<Lit("and"), Lit(sk), Lit("between"), <<":", "skvalue1">>,
               Lit("and"), <<":", "skvalue2">> >>
      ELSE IF operation = "begins_with" THEN partition \o beginsWith
      ELSE partition \o <<Lit("and"), Lit(sk), Lit(operation),
                          <<":", "skvalue">> >>

\* The value C6 states a placeholder of the key condition is bound to.
ClaimedKeyValue(placeholder, pkValue, cond) ==
  IF placeholder = <<":", "pkvalue">> THEN pkValue
  ELSE IF placeholder = <<":", "skvalue1">> THEN cond.value1
  ELSE IF placeholder = <<":", "skvalue2">> THEN cond.value2
  ELSE IF cond.type = "string" THEN cond.str
  ELSE cond.value

KeyConditionAsClaimed(emptyIsNone) ==
  (IsQuery /\ Len(DataRequests) >= 1) =>
    LET p == DataRequests[1].params
        keys == KeySchemaOf(call.tableName)
        pk == keys[1].AttributeName
        sk == IF Len(keys) >= 2 THEN keys[2].AttributeName ELSE Undefined
        values == p.ExpressionAttributeValues
    IN  /\ p.TableName = call.tableName
        /\ p.KeyConditionExpression =
             ClaimedKeyCondition(pk, sk, call.condition, emptyIsNone)
        /\ DOMAIN values = Placeholders(p.KeyConditionExpression)
        /\ \A ph \in DOMAIN values :
             values[ph] =
               ClaimedKeyValue(ph, call.primaryKeyValue, call.condition)
        /\ Len(p.KeyConditionExpression) > 3 => call.condition.type # "undefined"

\* C6, as amended: the key condition holds the partition-key equality, bound
\* to the partition-key value, and a sort-key condition only with a third
\* argument: `between` with value1 and value2, `begins_with` with value, the
\* comparisons with value, and begins_with the string when the argument is a
\* string that is not empty; an empty string adds no condition.  The values
\* bound are those of the placeholders the expression refers to.
C6_KeyCondition == KeyConditionAsClaimed(TRUE)

\* C6, as stated: a string argument, empty or not, adds a begins_with
\* condition bound to it.
C6_AsStated == KeyConditionAsClaimed(FALSE)

\* C6's case: a query of books between two titles has sent its request.
C6_Witness ==
  /\ IsQuery
  /\ call.tableName = "books"
  /\ call.condition.operation = "between"
  /\ Len(DataRequests) = 1
  /\ Len(DataRequests[1].params.KeyConditionExpression) = 9

\* The condition C10 refers to for one filter.
ConditionOf(f) == _buildFilterQuery(f).value.expression
RECURSIVE JoinWithAnd(_)
JoinWithAnd(conditions) ==
  IF Len(conditions) = 1 THEN conditions[1]
  ELSE JoinWithAnd(SubSeq(conditions, 1, Len(conditions) - 1))
         \o <<Lit("and")>> \o conditions[Len(conditions)]
\* The value a filter supplies for a placeholder of its condition.
SuppliedValue(f, placeholder) ==
  IF placeholder[3] = "Value1" THEN f.value1
  ELSE IF placeholder[3] = "Value2" THEN f.value2
  ELSE f.value

\* C10: a list of scan filters with listed operations makes a filter
\* expression of the filters' conditions, joined by `and` in the order of the
\* list, in which every placeholder of a filter's condition is bound to the
\* value that filter supplies, also when filters name the same attribute with
\* different values; an empty list, and no filters, make no filter
\* expression.
\* The code does not keep this: the placeholder is named after the attribute
\* alone, so of two filters on one attribute the later value is bound.
C10_FiltersBoundToOwnValues ==
  (IsScan /\ call.filters.type # "object" /\ Len(DataRequests) >= 1) =>
    LET p == DataRequests[1].params
        list == call.filters.list
    IN  IF list = <<>> THEN "FilterExpression" \notin DOMAIN p
        ELSE /\ p.FilterExpression =
                  JoinWithAnd([i \in 1..Len(list) |-> ConditionOf(list[i])])
             /\ \A i \in 1..Len(list) :
                  \A ph \in Placeholders(ConditionOf(list[i])) :
                    /\ ph \in DOMAIN p.ExpressionAttributeValues
                    /\ p.ExpressionAttributeValues[ph] =
                         SuppliedValue(list[i], ph)

====
